---- MODULE Spec2Model ----
(***************************************************************************)
(* Model of meme_fetcher.py: fetch_memes_from_reddit, send_to_discord and  *)
(* main.                                                                   *)
(*                                                                         *)
(* Strings the code inspects are sequences of tokens; a token is a literal *)
(* piece of text, and the string is the concatenation of its tokens.       *)
(* ".gifv" is written <<".gif", "v">>, so that a substring test for ".gif" *)
(* succeeds on it and a suffix test for ".gif" fails, as in Python.        *)
(* None and "" are both falsy and the code only tests truthiness of        *)
(* image_url, so both are the empty sequence.                              *)
(***************************************************************************)
EXTENDS Integers, Sequences, FiniteSets, TLC

VARIABLES
    webhook,            \* DISCORD_WEBHOOK_URL: [set |-> BOOLEAN, value |-> string]
    pc,                 \* position of main
    exit_code,          \* argument of sys.exit, -1 while running
    gi,                 \* index of the general loop in general_subreddits
    wi,                 \* index of the work loop in work_subreddits
    general_memes,
    top_general_memes,
    work_memes,
    top_work_memes,
    success_general,
    success_work,
    fetch,              \* frame of the running fetch_memes_from_reddit call
    ret,                \* value returned by the last finished call
    send,               \* frame of the running send_to_discord call
    net                 \* network activity of the run so far

vars == <<webhook, pc, exit_code, gi, wi, general_memes, top_general_memes,
          work_memes, top_work_memes, success_general, success_work,
          fetch, ret, send, net>>

----------------------------------------------------------------------------
\* Configuration (lines 26-30) and the constants of main.

MAX_RETRIES == 3
RETRY_DELAY == 2
RATE_LIMIT_DELAY == 1
GENERAL_LIMIT == 5
WORK_LIMIT == 2
TOP_N == 5

general_subreddits == <<"memes", "dankmemes", "ProgrammerHumor">>
work_subreddits == <<"talesfromtechsupport", "iiiiiiitttttttttttt", "sysadmin",
                     "techsupportgore", "ProgrammerHumor">>

WEBHOOK_PREFIX == "https://discord.com/api/webhooks/"

\* Bounds of the model.
MaxLimit == 3       \* fetch is called directly with limit in 0..MaxLimit
MaxFeedLen == 3     \* longest feed a directly called fetch is given
BigFeedLen == 6     \* length of the all-image feed main's provider can serve
MaxBatch == 3       \* longest batch a directly called send_to_discord is given

----------------------------------------------------------------------------
\* Strings as token sequences.

Min(a, b) == IF a < b THEN a ELSE b

\* s[:n]
Take(s, n) == SubSeq(s, 1, Min(n, Len(s)))

\* str.lower() on one token. Strings are opaque values, so the function is a
\* table over the tokens of the alphabet that hold an upper-case letter: the
\* upper-case spellings of the extensions and of "preview", and the one
\* subreddit name written with capitals. Every other token of the alphabet
\* is lower-case already and is returned as it is.
LowerTok(t) ==
    CASE t = ".JPG" -> ".jpg"
      [] t = ".JPEG" -> ".jpeg"
      [] t = ".PNG" -> ".png"
      [] t = ".GIF" -> ".gif"
      [] t = "V" -> "v"
      [] t = "PREVIEW" -> "preview"
      [] t = "ProgrammerHumor" -> "programmerhumor"
      [] OTHER -> t

\* str.lower()
Lower(s) == [i \in 1..Len(s) |-> LowerTok(s[i])]

\* sub in s
Contains(s, sub) == \E i \in 1..Len(s) : s[i] = sub

\* s.endswith(sub)
EndsWith(s, sub) == Len(s) > 0 /\ s[Len(s)] = sub

\* s.replace('&amp;', '&')
DecodeAmp(s) == [i \in 1..Len(s) |-> IF s[i] = "&amp;" THEN "&" ELSE s[i]]

\* ['.jpg', '.jpeg', '.png', '.gif'] (lines 86 and 97)
IMAGE_EXTS == {".jpg", ".jpeg", ".png", ".gif"}

----------------------------------------------------------------------------
\* Entries of a parsed feed.
\*   attrs            the attributes the entry has (hasattr)
\*   title, link, id  strings
\*   media_thumbnail  list of dicts: [keys |-> set of keys, url |-> string]
\*   content          list of objects with a value; a value is a list of
\*                    markup pieces: [kind |-> "img", url |-> src],
\*                    [kind |-> "a", url |-> href],
\*                    [kind |-> "points", url |-> digits], [kind |-> "text", ...]

\* re.search(r'<img[^>]+src="([^"]+)"', content): the src of the leftmost img
\* tag that has a non-empty src; <<>> when there is no match.
RECURSIVE ImgMatch(_)
ImgMatch(content) ==
    IF content = <<>> THEN <<>>
    ELSE IF Head(content).kind = "img" /\ Head(content).url # <<>>
         THEN Head(content).url
         ELSE ImgMatch(Tail(content))

\* The regular expression of line 91 on one href value: [^"]+ \.(jpg|jpeg|png|gif) [^"]*
\* (case-sensitive, at least one character before the extension).
HrefMatches(url) ==
    \E i \in 2..Len(url) : url[i] \in {".jpg", ".jpeg", ".png", ".gif"}

\* re.search(r'href="([^"]+\.(jpg|jpeg|png|gif)[^"]*)"', content): the
\* leftmost href the expression matches; <<>> when there is none.
RECURSIVE LinkMatch(_)
LinkMatch(content) ==
    IF content = <<>> THEN <<>>
    ELSE IF Head(content).kind = "a" /\ HrefMatches(Head(content).url)
         THEN Head(content).url
         ELSE LinkMatch(Tail(content))

\* re.search(r'(\d+)\s+points?', content): the digits of the leftmost marker.
RECURSIVE ScoreMatch(_)
ScoreMatch(content) ==
    IF content = <<>> THEN <<>>
    ELSE IF Head(content).kind = "points" THEN Head(content).url
         ELSE ScoreMatch(Tail(content))

\* Line 86: the condition under which the image-tag src is taken.
ImgTagAccepted(potential_url) ==
    /\ \E ext \in IMAGE_EXTS : Contains(Lower(potential_url), ext)
    /\ Contains(potential_url, "preview")

\* Lines 72-73: image_url after the media-thumbnail step.
FromThumbnail(entry) ==
    IF "media_thumbnail" \in entry.attrs /\ entry.media_thumbnail # <<>>
    THEN entry.media_thumbnail[1].url
    ELSE <<>>

\* Lines 79-87: image_url after the image-tag step (content is the markup).
FromImgTag(content) ==
    IF (\E i \in 1..Len(content) : content[i].kind = "img")
       /\ ImgMatch(content) # <<>>
       /\ ImgTagAccepted(DecodeAmp(ImgMatch(content)))
    THEN DecodeAmp(ImgMatch(content))
    ELSE <<>>

\* Lines 90-93: image_url after the hyperlink step.
FromLink(content) ==
    IF LinkMatch(content) # <<>> THEN DecodeAmp(LinkMatch(content)) ELSE <<>>

\* Lines 96-98: image_url from the entry id.
FromId(entry) ==
    IF "id" \in entry.attrs
       /\ \E ext \in IMAGE_EXTS : EndsWith(Lower(entry.id), ext)
    THEN entry.id
    ELSE <<>>

\* Lines 64-119: does the body of the try block raise on this entry?
\* entry.title and entry.link raise AttributeError when absent,
\* media_thumbnail[0]['url'] raises KeyError without a url key, and
\* entry.content[0] raises IndexError on an empty list. The first content
\* access (line 77) is skipped when the thumbnail gave an image; the second
\* (line 103) is not.
EntryRaises(entry) ==
    \/ "title" \notin entry.attrs
    \/ "link" \notin entry.attrs
    \/ /\ "media_thumbnail" \in entry.attrs
       /\ entry.media_thumbnail # <<>>
       /\ "url" \notin entry.media_thumbnail[1].keys
    \/ "content" \in entry.attrs /\ entry.content = <<>>

\* Lines 68-98: the image URL of an entry that does not raise; <<>> is None.
ExtractImageUrl(entry) ==
    LET t == FromThumbnail(entry) IN
    IF t # <<>> THEN t
    ELSE LET c == IF "content" \in entry.attrs
                  THEN LET v == entry.content[1].value
                           g == FromImgTag(v)
                       IN IF g # <<>> THEN g ELSE FromLink(v)
                  ELSE <<>>
         IN IF c # <<>> THEN c ELSE FromId(entry)

\* Lines 100-106.
ExtractScore(entry) ==
    IF "content" \in entry.attrs /\ ScoreMatch(entry.content[1].value) # <<>>
    THEN ScoreMatch(entry.content[1].value)
    ELSE <<"?">>

\* Lines 110-115: the dictionary appended for an admitted entry.
MakeMeme(entry) ==
    [title |-> entry.title,
     image_url |-> ExtractImageUrl(entry),
     post_url |-> entry.link,
     score |-> ExtractScore(entry)]

\* Lines 108-109 with the try/except of lines 64 and 117-119: the entry is
\* appended iff its processing does not raise and an image URL was found.
Admits(entry) == ~EntryRaises(entry) /\ ExtractImageUrl(entry) # <<>>

----------------------------------------------------------------------------
\* Lines 60-119: the loop over feed.entries.

\* Mutant of ReachedLimit: the comparison is off by one.
ReachedLimitOffByOne(memes, limit) == Len(memes) > limit

\* Line 61: the test that ends the scan.
ReachedLimit(memes, limit) == Len(memes) >= limit

\* Mutant of ScanFrom: an entry that raises ends the scan (no inner try).
RECURSIVE ScanFromAbortOnError(_, _, _, _)
ScanFromAbortOnError(entries, i, memes, limit) ==
    IF i > Len(entries) \/ ReachedLimit(memes, limit)
    THEN [memes |-> memes, scanned |-> i - 1]
    ELSE IF EntryRaises(entries[i])
         THEN [memes |-> memes, scanned |-> i]
         ELSE ScanFromAbortOnError(entries, i + 1,
                  IF Admits(entries[i])
                  THEN Append(memes, MakeMeme(entries[i]))
                  ELSE memes,
                  limit)

\* The loop from entry i on; scanned counts the entries whose body ran.
RECURSIVE ScanFrom(_, _, _, _)
ScanFrom(entries, i, memes, limit) ==
    IF i > Len(entries) \/ ReachedLimit(memes, limit)
    THEN [memes |-> memes, scanned |-> i - 1]
    ELSE ScanFrom(entries, i + 1,
                  IF Admits(entries[i])
                  THEN Append(memes, MakeMeme(entries[i]))
                  ELSE memes,
                  limit)

ScanEntries(entries, memes, limit) == ScanFrom(entries, 1, memes, limit)

\* Mutant of ShouldRetry: one attempt fewer.
ShouldRetryOnce(attempt) == attempt < MAX_RETRIES - 2

\* Mutant of ShouldRetry: no ceiling.
ShouldRetryAlways(attempt) == attempt >= 0

\* Lines 126 and 182: is another attempt made after a failed one?
ShouldRetry(attempt) == attempt < MAX_RETRIES - 1

----------------------------------------------------------------------------
\* The provider: the feeds feedparser.parse can return for a subreddit.

EntryKinds == {"thumb", "text", "broken", "direct",
               "gifv", "preview", "fullimg", "nolink", "thumbq"}

PostLink(sub, i) == <<"https://www.reddit.com/r/", sub, "/comments/", ToString(i)>>

\* Entry number i of a feed of subreddit sub, of the given kind:
\*   thumb   has a media thumbnail and a points marker
\*   text    a self post: markup without image, no image id
\*   broken  has no title, so processing it raises
\*   direct  no content; its id is a direct image link
\*   gifv    markup with a hyperlink to a .gifv file and a points marker
\*   preview markup with an image tag whose src is a preview-proxy URL
\*   fullimg markup with an image tag whose src is the full-size image
\*   nolink  has a media thumbnail and a title but no link
\*   thumbq  has a media thumbnail whose URL carries a query string
Entry(kind, sub, i) ==
    CASE kind = "thumb" ->
         [attrs |-> {"title", "link", "media_thumbnail", "content", "id"},
          title |-> <<"t", ToString(i)>>,
          link |-> PostLink(sub, i),
          media_thumbnail |-> <<[keys |-> {"url"},
                                 url |-> <<"https://i.redd.it/", sub, ToString(i), ".jpg">>]>>,
          content |-> <<[value |-> <<[kind |-> "points", url |-> <<"42">>]>>]>>,
          id |-> PostLink(sub, i)]
      [] kind = "text" ->
         [attrs |-> {"title", "link", "content", "id"},
          title |-> <<"t", ToString(i)>>,
          link |-> PostLink(sub, i),
          media_thumbnail |-> <<>>,
          content |-> <<[value |-> <<[kind |-> "text", url |-> <<>>]>>]>>,
          id |-> PostLink(sub, i)]
      [] kind = "broken" ->
         [attrs |-> {"link", "media_thumbnail", "content", "id"},
          title |-> <<>>,
          link |-> PostLink(sub, i),
          media_thumbnail |-> <<[keys |-> {"url"},
                                 url |-> <<"https://i.redd.it/", sub, ToString(i), ".jpg">>]>>,
          content |-> <<[value |-> <<[kind |-> "text", url |-> <<>>]>>]>>,
          id |-> PostLink(sub, i)]
      [] kind = "direct" ->
         [attrs |-> {"title", "link", "id"},
          title |-> <<"t", ToString(i)>>,
          link |-> PostLink(sub, i),
          media_thumbnail |-> <<>>,
          content |-> <<>>,
          id |-> <<"https://i.imgur.com/", sub, ToString(i), ".PNG">>]
      [] kind = "gifv" ->
         [attrs |-> {"title", "link", "content", "id"},
          title |-> <<"t", ToString(i)>>,
          link |-> PostLink(sub, i),
          media_thumbnail |-> <<>>,
          content |-> <<[value |->
              <<[kind |-> "a", url |-> PostLink(sub, i)],
                [kind |-> "a",
                 url |-> <<"https://i.imgur.com/", sub, ToString(i), ".gif", "v">>],
                [kind |-> "points", url |-> <<"7">>]>>]>>,
          id |-> <<"https://i.imgur.com/", sub, ToString(i), ".gif", "v">>]
      [] kind = "preview" ->
         [attrs |-> {"title", "link", "content", "id"},
          title |-> <<"t", ToString(i)>>,
          link |-> PostLink(sub, i),
          media_thumbnail |-> <<>>,
          content |-> <<[value |->
              <<[kind |-> "img",
                 url |-> <<"https://", "preview", ".redd.it/", sub, ToString(i),
                           ".jpg", "?width=640", "&amp;", "s=1">>]>>]>>,
          id |-> PostLink(sub, i)]
      [] kind = "fullimg" ->
         [attrs |-> {"title", "link", "content", "id"},
          title |-> <<"t", ToString(i)>>,
          link |-> PostLink(sub, i),
          media_thumbnail |-> <<>>,
          content |-> <<[value |->
              <<[kind |-> "img",
                 url |-> <<"https://i.redd.it/", sub, ToString(i), ".jpg">>]>>]>>,
          id |-> PostLink(sub, i)]
      [] kind = "nolink" ->
         [attrs |-> {"title", "media_thumbnail", "id"},
          title |-> <<"t", ToString(i)>>,
          link |-> <<>>,
          media_thumbnail |-> <<[keys |-> {"url"},
                                 url |-> <<"https://i.redd.it/", sub, ToString(i), ".png">>]>>,
          content |-> <<>>,
          id |-> PostLink(sub, i)]
      [] kind = "thumbq" ->
         [attrs |-> {"title", "link", "media_thumbnail", "id"},
          title |-> <<"t", ToString(i)>>,
          link |-> PostLink(sub, i),
          media_thumbnail |-> <<[keys |-> {"url"},
                                 url |-> <<"https://external-", "preview", ".redd.it/",
                                           sub, ToString(i), ".jpg", "?s=1">>]>>,
          content |-> <<>>,
          id |-> PostLink(sub, i)]

MkFeed(sub, kinds) == [i \in 1..Len(kinds) |-> Entry(kinds[i], sub, i)]

\* Every non-empty feed of at most MaxFeedLen entries.
AllFeeds(sub) ==
    {MkFeed(sub, ks) : ks \in UNION {[1..n -> EntryKinds] : n \in 1..MaxFeedLen}}

\* The feeds the provider serves during a run of main: one with more image
\* entries than any limit, one mixing image, text and broken entries.
MainFeeds(sub) ==
    {MkFeed(sub, [i \in 1..BigFeedLen |-> "thumb"]),
     MkFeed(sub, <<"text", "thumb", "broken", "direct">>)}

----------------------------------------------------------------------------
\* Frames.

NoFetch == [subreddit |-> "", limit |-> 0, caller |-> "", attempt |-> 0,
            memes |-> <<>>, outcomes |-> <<>>, sleeps |-> <<>>,
            entries |-> <<>>, scanned |-> 0]

\* Lines 45-50: the frame at the start of a call.
NewFetch(subreddit, limit, caller) ==
    [NoFetch EXCEPT !.subreddit = subreddit, !.limit = limit, !.caller = caller]

NoSend == [caller |-> "", memes |-> <<>>, embeds |-> <<>>, attempt |-> 0,
           outcomes |-> <<>>, sleeps |-> <<>>, result |-> FALSE]

\* Network activity: the fetch calls made (caller and subreddit, in order),
\* whether feedparser.parse was called, the number of POSTs per category,
\* the numbers of embeds the POSTs carried, the categories a POST of which
\* was answered with success, the number in calls of the first fetch call
\* that used up its attempts (0 if none did), the send_to_discord calls made.
NoNet == [calls |-> <<>>, parsed |-> FALSE,
          posts |-> [general |-> 0, work |-> 0, direct |-> 0], posted |-> {}, ok |-> {},
          exhausted |-> 0, sends |-> <<>>]

\* The webhook values a run can start with: unset, empty, a URL of another
\* site, a Discord webhook URL.
Webhooks ==
    {[set |-> FALSE, value |-> <<>>],
     [set |-> TRUE, value |-> <<>>],
     [set |-> TRUE, value |-> <<"https://example.com/", "hook">>],
     [set |-> TRUE, value |-> <<WEBHOOK_PREFIX, "1/abc">>]}

----------------------------------------------------------------------------
\* fetch_memes_from_reddit (lines 33-132). One action per attempt, by what
\* feedparser.parse does in it.

\* Mutant of Pause: the wrong delay constant.
PauseRateLimit(sleeps) == Append(sleeps, RATE_LIMIT_DELAY)

\* Lines 127 and 183: time.sleep(RETRY_DELAY).
Pause(sleeps) == Append(sleeps, RETRY_DELAY)

\* Lines 124-130: parse raises. Sleep and go round again, or give up.
FetchRaise ==
    /\ pc = "fetch"
    /\ LET f == [fetch EXCEPT !.outcomes = Append(@, "raise")] IN
       IF ShouldRetry(fetch.attempt)
       THEN /\ fetch' = [f EXCEPT !.attempt = @ + 1,
                                  !.sleeps = Pause(@)]
            /\ UNCHANGED <<pc, ret>>
       ELSE /\ fetch' = f
            /\ ret' = fetch.memes
            /\ pc' = "fetch_ret"
    /\ net' = [net EXCEPT !.parsed = TRUE,
                          !.exhausted = IF @ = 0 /\ ~ShouldRetry(fetch.attempt)
                                        THEN Len(net.calls) ELSE @]
    /\ UNCHANGED <<webhook, exit_code, gi, wi, general_memes, top_general_memes,
                   work_memes, top_work_memes, success_general, success_work, send>>

\* Lines 55-57: the feed has no entries.
FetchNoEntries ==
    /\ pc = "fetch"
    /\ fetch' = [fetch EXCEPT !.outcomes = Append(@, "empty")]
    /\ ret' = fetch.memes
    /\ pc' = "fetch_ret"
    /\ net' = [net EXCEPT !.parsed = TRUE]
    /\ UNCHANGED <<webhook, exit_code, gi, wi, general_memes, top_general_memes,
                   work_memes, top_work_memes, success_general, success_work, send>>

\* Lines 60-122: the feed has entries; scan them and return.
FetchParsed(entries) ==
    LET r == ScanEntries(entries, fetch.memes, fetch.limit) IN
    /\ fetch' = [fetch EXCEPT !.outcomes = Append(@, "entries"),
                              !.entries = entries,
                              !.memes = r.memes,
                              !.scanned = r.scanned]
    /\ ret' = r.memes
    /\ pc' = "fetch_ret"
    /\ net' = [net EXCEPT !.parsed = TRUE]
    /\ UNCHANGED <<webhook, exit_code, gi, wi, general_memes, top_general_memes,
                   work_memes, top_work_memes, success_general, success_work, send>>

\* ... during a run of main
FetchEntries ==
    /\ pc = "fetch"
    /\ \E entries \in MainFeeds(fetch.subreddit) : FetchParsed(entries)

\* ... in a direct call
FetchEntriesDirect ==
    /\ pc = "fetch"
    /\ \E entries \in AllFeeds(fetch.subreddit) : FetchParsed(entries)

----------------------------------------------------------------------------
\* send_to_discord (lines 135-188).

TITLE_MAX == 250

\* Mutant of BuildEmbeds: the title is not cut.
BuildEmbedsNoSlice(memes, color) ==
    [i \in 1..Len(memes) |->
        [title |-> <<ToString(i), ".", " ">> \o memes[i].title,
         url |-> memes[i].post_url,
         image |-> memes[i].image_url,
         footer |-> memes[i].score,
         color |-> color]]

\* Lines 153-162. Titles are sequences of characters.
BuildEmbeds(memes, color) ==
    [i \in 1..Len(memes) |->
        [title |-> <<ToString(i), ".", " ">> \o Take(memes[i].title, TITLE_MAX),
         url |-> memes[i].post_url,
         image |-> memes[i].image_url,
         footer |-> memes[i].score,
         color |-> color]]

\* Lines 148-150: the batch send_to_discord refuses to send.
NothingToSend(memes) == memes = <<>>

\* Lines 148-168: entry of the call; target is where main continues.
SendEnter(memes, color, caller) ==
    IF NothingToSend(memes)
    THEN /\ send' = [NoSend EXCEPT !.caller = caller, !.memes = memes]
         /\ pc' = "send_ret"
    ELSE /\ send' = [NoSend EXCEPT !.caller = caller, !.memes = memes,
                                   !.embeds = BuildEmbeds(memes, color)]
         /\ pc' = "send"

Posted == [net EXCEPT !.posts[send.caller] = @ + 1,
                      !.posted = @ \cup {Len(send.embeds)}]

\* Lines 174-178: the POST succeeds.
PostOk ==
    /\ pc = "send"
    /\ net' = [Posted EXCEPT !.ok = @ \cup {send.caller}]
    /\ send' = [send EXCEPT !.result = TRUE, !.outcomes = Append(@, "ok")]
    /\ pc' = "send_ret"
    /\ UNCHANGED <<webhook, exit_code, gi, wi, general_memes, top_general_memes,
                   work_memes, top_work_memes, success_general, success_work,
                   fetch, ret>>

\* Lines 180-186: the POST raises requests.RequestException.
PostFail ==
    /\ pc = "send"
    /\ net' = Posted
    /\ IF ShouldRetry(send.attempt)
       THEN /\ send' = [send EXCEPT !.attempt = @ + 1,
                                    !.outcomes = Append(@, "fail"),
                                    !.sleeps = Pause(@)]
            /\ UNCHANGED pc
       ELSE /\ send' = [send EXCEPT !.result = FALSE,
                                    !.outcomes = Append(@, "fail")]
            /\ pc' = "send_ret"
    /\ UNCHANGED <<webhook, exit_code, gi, wi, general_memes, top_general_memes,
                   work_memes, top_work_memes, success_general, success_work,
                   fetch, ret>>

----------------------------------------------------------------------------
\* main (lines 191-275).

\* Mutant of ValidWebhook: the prefix test is missing.
ValidWebhookAnyUrl(w) == w.set /\ w.value # <<>>

\* Lines 196-203.
ValidWebhook(w) ==
    /\ w.set
    /\ w.value # <<>>
    /\ w.value[1] = WEBHOOK_PREFIX

\* Mutant of EnoughMemes: the comparison is off by one.
EnoughMemesOffByOne(memes) == Len(memes) > TOP_N

\* Mutant of EnoughMemes: a source without items ends the loop as well.
EnoughOrNothing(memes) == Len(memes) >= TOP_N \/ memes = <<>>

\* Line 215.
EnoughMemes(memes) == Len(memes) >= TOP_N

\* Mutant of TopMemes: the slice is missing.
TopMemesAll(memes) == memes

\* Lines 222 and 241.
TopMemes(memes) == Take(memes, TOP_N)

\* Line 250.
HasGeneralBatch == top_general_memes # <<>>

\* Mutant of HasWorkBatch: the work batch is sent only after a delivered
\* general batch.
HasWorkBatchAfterGeneral == top_work_memes # <<>> /\ success_general

\* Mutant of HasWorkBatch: the test reads the general batch.
HasWorkBatchReadsGeneral == top_general_memes # <<>>

\* Line 260.
HasWorkBatch == top_work_memes # <<>>

\* Mutant of ExitCode: both categories are required.
ExitCodeBoth(sg, sw) == IF sg /\ sw THEN 0 ELSE 1

\* Lines 270-275.
ExitCode(sg, sw) == IF sg \/ sw THEN 0 ELSE 1

ValidateConfig ==
    /\ pc = "start"
    /\ IF ValidWebhook(webhook)
       THEN pc' = "general_loop" /\ UNCHANGED exit_code
       ELSE pc' = "done" /\ exit_code' = 1
    /\ UNCHANGED <<webhook, gi, wi, general_memes, top_general_memes, work_memes,
                   top_work_memes, success_general, success_work, fetch, ret,
                   send, net>>

\* Lines 210-211, and 222 when the list is exhausted.
GeneralCall ==
    /\ pc = "general_loop"
    /\ IF gi <= Len(general_subreddits)
       THEN /\ fetch' = NewFetch(general_subreddits[gi], GENERAL_LIMIT, "general")
            /\ net' = [net EXCEPT !.calls = Append(@, <<"general", general_subreddits[gi]>>)]
            /\ pc' = "fetch"
            /\ UNCHANGED top_general_memes
       ELSE /\ top_general_memes' = TopMemes(general_memes)
            /\ pc' = "work_loop"
            /\ UNCHANGED <<fetch, net>>
    /\ UNCHANGED <<webhook, exit_code, gi, wi, general_memes, work_memes,
                   top_work_memes, success_general, success_work, ret, send>>

\* Lines 211-219, and 222 on break.
GeneralReturn ==
    /\ pc = "fetch_ret"
    /\ fetch.caller = "general"
    /\ general_memes' = general_memes \o ret
    /\ IF EnoughMemes(general_memes')
       THEN /\ top_general_memes' = TopMemes(general_memes')
            /\ pc' = "work_loop"
            /\ UNCHANGED gi
       ELSE /\ gi' = gi + 1
            /\ pc' = "general_loop"
            /\ UNCHANGED top_general_memes
    /\ fetch' = NoFetch
    /\ ret' = <<>>
    /\ UNCHANGED <<webhook, exit_code, wi, work_memes, top_work_memes,
                   success_general, success_work, send, net>>

\* Lines 233-234, and 241-248 when the list is exhausted.
WorkCall ==
    /\ pc = "work_loop"
    /\ IF wi <= Len(work_subreddits)
       THEN /\ fetch' = NewFetch(work_subreddits[wi], WORK_LIMIT, "work")
            /\ net' = [net EXCEPT !.calls = Append(@, <<"work", work_subreddits[wi]>>)]
            /\ pc' = "fetch"
            /\ UNCHANGED top_work_memes
       ELSE /\ top_work_memes' = TopMemes(work_memes)
            /\ pc' = "send_general"
            /\ UNCHANGED <<fetch, net>>
    /\ UNCHANGED <<webhook, exit_code, gi, wi, general_memes, top_general_memes,
                   work_memes, success_general, success_work, ret, send>>

\* Lines 234-238.
WorkReturn ==
    /\ pc = "fetch_ret"
    /\ fetch.caller = "work"
    /\ work_memes' = work_memes \o ret
    /\ wi' = wi + 1
    /\ pc' = "work_loop"
    /\ fetch' = NoFetch
    /\ ret' = <<>>
    /\ UNCHANGED <<webhook, exit_code, gi, general_memes, top_general_memes,
                   top_work_memes, success_general, success_work, send, net>>

\* Lines 250-257.
DeliverGeneral ==
    /\ pc = "send_general"
    /\ IF HasGeneralBatch
       THEN /\ SendEnter(top_general_memes, 16734003, "general")
            /\ net' = [net EXCEPT !.sends = Append(@, "general")]
       ELSE pc' = "send_work" /\ UNCHANGED <<send, net>>
    /\ UNCHANGED <<webhook, exit_code, gi, wi, general_memes, top_general_memes,
                   work_memes, top_work_memes, success_general, success_work,
                   fetch, ret>>

\* Lines 252 and 258.
GeneralDelivered ==
    /\ pc = "send_ret"
    /\ send.caller = "general"
    /\ success_general' = send.result
    /\ send' = NoSend
    /\ pc' = "send_work"
    /\ UNCHANGED <<webhook, exit_code, gi, wi, general_memes, top_general_memes,
                   work_memes, top_work_memes, success_work, fetch, ret, net>>

\* Lines 260-267.
DeliverWork ==
    /\ pc = "send_work"
    /\ IF HasWorkBatch
       THEN /\ SendEnter(top_work_memes, 3447003, "work")
            /\ net' = [net EXCEPT !.sends = Append(@, "work")]
       ELSE pc' = "exit" /\ UNCHANGED <<send, net>>
    /\ UNCHANGED <<webhook, exit_code, gi, wi, general_memes, top_general_memes,
                   work_memes, top_work_memes, success_general, success_work,
                   fetch, ret>>

\* Line 262.
WorkDelivered ==
    /\ pc = "send_ret"
    /\ send.caller = "work"
    /\ success_work' = send.result
    /\ send' = NoSend
    /\ pc' = "exit"
    /\ UNCHANGED <<webhook, exit_code, gi, wi, general_memes, top_general_memes,
                   work_memes, top_work_memes, success_general, fetch, ret, net>>

\* Lines 270-275.
Exit ==
    /\ pc = "exit"
    /\ exit_code' = ExitCode(success_general, success_work)
    /\ pc' = "done"
    /\ UNCHANGED <<webhook, gi, wi, general_memes, top_general_memes, work_memes,
                   top_work_memes, success_general, success_work, fetch, ret,
                   send, net>>

----------------------------------------------------------------------------
\* Specifications.

\* A run of main.
Init ==
    /\ webhook \in Webhooks
    /\ pc = "start"
    /\ exit_code = -1
    /\ gi = 1
    /\ wi = 1
    /\ general_memes = <<>>
    /\ top_general_memes = <<>>
    /\ work_memes = <<>>
    /\ top_work_memes = <<>>
    /\ success_general = FALSE
    /\ success_work = FALSE
    /\ fetch = NoFetch
    /\ ret = <<>>
    /\ send = NoSend
    /\ net = NoNet

Next ==
    \/ ValidateConfig
    \/ GeneralCall
    \/ GeneralReturn
    \/ WorkCall
    \/ WorkReturn
    \/ FetchRaise
    \/ FetchNoEntries
    \/ FetchEntries
    \/ DeliverGeneral
    \/ GeneralDelivered
    \/ DeliverWork
    \/ WorkDelivered
    \/ PostOk
    \/ PostFail
    \/ Exit

Spec == Init /\ [][Next]_vars

\* main is sequential and every call it makes returns: a step that can be
\* taken is taken.
SpecLive == Spec /\ WF_vars(Next)

\* One direct call fetch_memes_from_reddit(subreddit, limit).
InitFetch ==
    /\ webhook = [set |-> FALSE, value |-> <<>>]
    /\ pc = "fetch"
    /\ exit_code = -1
    /\ gi = 1
    /\ wi = 1
    /\ general_memes = <<>>
    /\ top_general_memes = <<>>
    /\ work_memes = <<>>
    /\ top_work_memes = <<>>
    /\ success_general = FALSE
    /\ success_work = FALSE
    /\ \E sub \in {"memes", "sysadmin"}, limit \in 0..MaxLimit :
          fetch = NewFetch(sub, limit, "direct")
    /\ ret = <<>>
    /\ send = NoSend
    /\ net = NoNet

NextFetch ==
    \/ FetchRaise
    \/ FetchNoEntries
    \/ FetchEntriesDirect

SpecFetch == InitFetch /\ [][NextFetch]_vars

\* One direct call send_to_discord(memes, webhook_url) with the default title
\* and color.

\* A title of n characters.
TitleOfLen(n) == [i \in 1..n |-> "x"]

\* The items a directly called send_to_discord is given: titles shorter than,
\* as long as and longer than the cut of line 156.
SendItems ==
    {[title |-> TitleOfLen(n),
      image_url |-> <<"https://i.redd.it/", "a", ".jpg">>,
      post_url |-> PostLink("memes", 1),
      score |-> <<"?">>] : n \in {1, TITLE_MAX - 3, TITLE_MAX, TITLE_MAX + 1}}

Batches == UNION {[1..n -> SendItems] : n \in 0..MaxBatch}

\* Lines 135-168.
SendCallDirect ==
    /\ pc = "send_call"
    /\ SendEnter(send.memes, 16734003, "direct")
    /\ net' = [net EXCEPT !.sends = Append(@, "direct")]
    /\ UNCHANGED <<webhook, exit_code, gi, wi, general_memes, top_general_memes,
                   work_memes, top_work_memes, success_general, success_work,
                   fetch, ret>>

InitSend ==
    /\ webhook = [set |-> TRUE, value |-> <<WEBHOOK_PREFIX, "1/abc">>]
    /\ pc = "send_call"
    /\ exit_code = -1
    /\ gi = 1
    /\ wi = 1
    /\ general_memes = <<>>
    /\ top_general_memes = <<>>
    /\ work_memes = <<>>
    /\ top_work_memes = <<>>
    /\ success_general = FALSE
    /\ success_work = FALSE
    /\ fetch = NoFetch
    /\ ret = <<>>
    /\ \E memes \in Batches :
          send = [NoSend EXCEPT !.caller = "direct", !.memes = memes]
    /\ net = NoNet

NextSend ==
    \/ SendCallDirect
    \/ PostOk
    \/ PostFail

SpecSend == InitSend /\ [][NextSend]_vars

----------------------------------------------------------------------------
\* Properties.

\* The number of admitted entries among the first k of a feed.
AdmittedBefore(entries, k) == Cardinality({i \in 1..k : Admits(entries[i])})

\* The items of the admitted entries of a feed, in feed order, at most limit.
ExpectedMemes(entries, limit) ==
    LET adm == SelectSeq(entries, Admits)
    IN Take([i \in 1..Len(adm) |-> MakeMeme(adm[i])], limit)

AllRaise(outcomes) == \A i \in 1..Len(outcomes) : outcomes[i] = "raise"

\* The webhook URL is set and starts with the Discord prefix.
WebhookWellFormed ==
    webhook.set /\ Len(webhook.value) >= 1 /\ webhook.value[1] = WEBHOOK_PREFIX

\* The subreddits fetched for a category, in call order.
CalledFor(caller) ==
    LET cs == SelectSeq(net.calls, LAMBDA c : c[1] = caller)
    IN [i \in 1..Len(cs) |-> cs[i][2]]

\* main is past the general loop / past the work loop.
WorkDone ==
    \/ pc \in {"send_general", "send", "send_ret", "send_work", "exit"}
    \/ pc = "done" /\ WebhookWellFormed

GeneralDone ==
    \/ pc = "work_loop"
    \/ pc \in {"fetch", "fetch_ret"} /\ fetch.caller = "work"
    \/ WorkDone

\* Position of an item: its source in general_subreddits, its entry in the feed.
SourcePos(meme) ==
    CHOOSE k \in 1..Len(general_subreddits) : general_subreddits[k] = meme.post_url[2]

EntryNo(meme) ==
    CHOOSE n \in 1..(BigFeedLen + 4) : ToString(n) = meme.post_url[4]

SourceThenEntry(m1, m2) ==
    \/ SourcePos(m1) < SourcePos(m2)
    \/ SourcePos(m1) = SourcePos(m2) /\ EntryNo(m1) < EntryNo(m2)

\* C1: a call of fetch_memes_from_reddit never holds or returns more than
\* limit items, and every entry it scanned was scanned while fewer than limit
\* items were admitted.
C1_AtMostLimit ==
    /\ Len(fetch.memes) <= fetch.limit
    /\ pc = "fetch_ret" =>
         /\ Len(ret) <= fetch.limit
         /\ \A k \in 1..fetch.scanned :
               AdmittedBefore(fetch.entries, k - 1) < fetch.limit

\* C1 witness: after a retry, a call returned exactly limit items and left an
\* admissible entry unscanned.
C1_Witness ==
    /\ pc = "fetch_ret"
    /\ fetch.outcomes = <<"raise", "entries">>
    /\ fetch.limit >= 2
    /\ Len(ret) = fetch.limit
    /\ fetch.scanned < Len(fetch.entries)
    /\ Admits(fetch.entries[Len(fetch.entries)])

\* C2: a call whose first two attempts raised and whose third parsed a feed
\* returns the items admitted from that feed and slept 2 seconds exactly twice.
C2_RetryRecovers ==
    pc = "fetch_ret" /\ fetch.outcomes = <<"raise", "raise", "entries">> =>
        /\ ret = ExpectedMemes(fetch.entries, fetch.limit)
        /\ fetch.sleeps = <<2, 2>>

\* C2 witness: such a call returned items.
C2_Witness ==
    /\ pc = "fetch_ret"
    /\ fetch.outcomes = <<"raise", "raise", "entries">>
    /\ Len(ret) >= 2

\* C3: a call all of whose attempts raised made exactly 3 attempts, slept
\* exactly twice and returned the empty list.
C3_AllAttemptsFail ==
    pc = "fetch_ret" /\ AllRaise(fetch.outcomes) =>
        /\ Len(fetch.outcomes) = 3
        /\ fetch.sleeps = <<2, 2>>
        /\ ret = <<>>

\* C3 witness: a call returned after three raising attempts.
C3_Witness ==
    /\ pc = "fetch_ret"
    /\ fetch.outcomes = <<"raise", "raise", "raise">>
    /\ fetch.limit > 0

\* C4 as claimed: a feed without entries ends the call only on the final
\* attempt; on an earlier attempt the call sleeps and tries again.
C4_EmptyIsRetried ==
    pc = "fetch_ret" /\ fetch.outcomes # <<>>
                     /\ fetch.outcomes[Len(fetch.outcomes)] = "empty" =>
        /\ Len(fetch.outcomes) = MAX_RETRIES
        /\ fetch.sleeps = <<2, 2>>

\* C5: in the general category no source is fetched once the accumulator
\* holds 5 items, and the batch is then the first 5 accumulated items, which
\* are in source-then-entry order.
C5_EarlyStop ==
    /\ Len(general_memes) >= 5 => pc # "general_loop" /\ fetch.caller # "general"
    /\ GeneralDone /\ Len(general_memes) >= 5 =>
         /\ Len(top_general_memes) = 5
         /\ \A i \in 1..5 : top_general_memes[i] = general_memes[i]
         /\ \A i, j \in 1..5 :
               i < j => SourceThenEntry(top_general_memes[i], top_general_memes[j])

\* C5 witness: the second source took the accumulator past 5, the third was
\* not fetched and the batch spans two sources.
C5_Witness ==
    /\ GeneralDone
    /\ CalledFor("general") = <<"memes", "dankmemes">>
    /\ Len(general_memes) > 5
    /\ top_general_memes[1].post_url[2] = "memes"
    /\ top_general_memes[5].post_url[2] = "dankmemes"

\* C6: in the work category all 5 sources are fetched once each in
\* declaration order, and the batch is the first min(5, total) accumulated items.
C6_Exhaustive ==
    /\ pc = "work_loop" \/ fetch.caller = "work" =>
         CalledFor("work") = SubSeq(work_subreddits, 1, Len(CalledFor("work")))
    /\ WorkDone =>
         /\ CalledFor("work") = work_subreddits
         /\ Len(top_work_memes) = Min(5, Len(work_memes))
         /\ \A i \in 1..Len(top_work_memes) : top_work_memes[i] = work_memes[i]

\* C6 witness: the accumulator held 6 items after the third source, the fourth
\* and fifth were fetched all the same, and the batch has 5 items.
C6_Witness ==
    /\ WorkDone
    /\ Len(work_memes) = 10
    /\ work_memes[10].post_url[2] = "ProgrammerHumor"
    /\ Len(top_work_memes) = 5

\* C7: main exits with 0 iff the webhook URL is well-formed and a POST of some
\* category was answered with success, and with 1 otherwise.
C7_ExitCode ==
    pc = "done" =>
        exit_code = IF WebhookWellFormed /\ net.ok # {} THEN 0 ELSE 1

\* C7 witness: exit 0 with a short work batch delivered and the general
\* delivery failed.
C7_Witness ==
    /\ pc = "done"
    /\ exit_code = 0
    /\ net.ok = {"work"}
    /\ net.posts.general = 3
    /\ Len(top_work_memes) \in 1..4

\* C8: with a webhook URL that is unset, empty or without the prefix, main
\* makes no fetch call, no parse and no POST, and exits with 1.
C8_ConfigFirst ==
    ~WebhookWellFormed =>
        /\ net = NoNet
        /\ pc \in {"start", "done"}
        /\ pc = "done" => exit_code = 1

\* C8 witness: main has exited on a URL of another site.
C8_Witness ==
    /\ pc = "done"
    /\ webhook.set
    /\ webhook.value # <<>>
    /\ ~WebhookWellFormed
    /\ exit_code = 1

\* C9: when all 3 POSTs of the general batch failed and the work batch is not
\* empty, the work batch is POSTed, and its success makes main exit with 0.
C9_WorkAfterFailedGeneral ==
    /\ pc \in {"exit", "done"} /\ net.posts.general = 3 /\ "general" \notin net.ok
         /\ top_work_memes # <<>> => net.posts.work >= 1
    /\ pc = "done" /\ net.posts.general = 3 /\ "general" \notin net.ok
         /\ "work" \in net.ok => exit_code = 0

\* C9 witness: the general delivery failed three times, the work delivery
\* succeeded, main exited with 0.
C9_Witness ==
    /\ pc = "done"
    /\ net.posts.general = 3
    /\ "general" \notin net.ok
    /\ "work" \in net.ok
    /\ exit_code = 0

\* C10: no POST carries zero embeds; a category with an empty batch makes no
\* POST and is not marked delivered, and the other category, if its batch is
\* not empty, is still POSTed.
C10_EmptyBatchNotSent ==
    /\ 0 \notin net.posted
    /\ pc \in {"exit", "done"} /\ WebhookWellFormed =>
         /\ top_general_memes = <<>> =>
               /\ net.posts.general = 0
               /\ ~success_general
               /\ top_work_memes # <<>> => net.posts.work >= 1
         /\ top_work_memes = <<>> =>
               /\ net.posts.work = 0
               /\ ~success_work
               /\ top_general_memes # <<>> => net.posts.general >= 1

\* C10 witness: the general batch was empty, nothing was POSTed for it, and
\* the work batch was delivered.
C10_Witness ==
    /\ pc = "done"
    /\ top_general_memes = <<>>
    /\ net.posts.general = 0
    /\ "work" \in net.ok
    /\ exit_code = 0

\* The URL ends in a recognized image extension, in either case.
EndsInImageExt(url) == \E ext \in IMAGE_EXTS : EndsWith(Lower(url), ext)

\* The URL ends in .gifv.
EndsInGifv(url) ==
    Len(url) >= 2 /\ url[Len(url) - 1] = ".gif" /\ url[Len(url)] = "v"

\* The call has returned from an attempt that parsed a feed with entries.
ReturnedFromScan ==
    /\ pc = "fetch_ret"
    /\ fetch.outcomes # <<>>
    /\ fetch.outcomes[Len(fetch.outcomes)] = "entries"

\* The returned items whose post is entry k of the feed.
ItemsOf(k) ==
    {i \in 1..Len(ret) : ret[i].post_url = fetch.entries[k].link}

\* The decoded src of the image tag the image-tag step looks at; <<>> if the
\* entry has no markup or no image tag.
ImgTagSrc(entry) ==
    IF "content" \in entry.attrs /\ entry.content # <<>>
    THEN DecodeAmp(ImgMatch(entry.content[1].value))
    ELSE <<>>

\* C11 as claimed: every returned item has a non-empty image_url that ends in
\* .jpg, .jpeg, .png or .gif.
C11_ImageUrlEndsInExtension ==
    pc = "fetch_ret" =>
        \A i \in 1..Len(ret) :
            ret[i].image_url # <<>> /\ EndsInImageExt(ret[i].image_url)

\* C13 as claimed: no returned item has an image_url ending in .gifv; an entry
\* whose image link ends in .gifv is returned with the link ending in .gif.
C13_GifvNormalised ==
    pc = "fetch_ret" =>
        \A i \in 1..Len(ret) : ~EndsInGifv(ret[i].image_url)

\* C17 as claimed: every scanned entry that has a title and an image URL is
\* admitted, with or without a score marker or a post link, and a scanned
\* entry without an image URL is not.
C17_ImageIsSoleCriterion ==
    ReturnedFromScan =>
        \A k \in 1..fetch.scanned :
            LET e == fetch.entries[k] IN
            "title" \in e.attrs =>
                (ExtractImageUrl(e) # <<>> <=> ItemsOf(k) # {})

\* C18 as claimed: the image-tag step never takes a src that is a preview
\* URL, and takes a full-size src with a recognized extension.
C18_ImageTagPrefersFullSize ==
    ReturnedFromScan =>
        \A k \in 1..fetch.scanned :
            LET e == fetch.entries[k]
                src == ImgTagSrc(e)
            IN  FromThumbnail(e) = <<>> /\ src # <<>> =>
                    IF Contains(src, "preview")
                    THEN \A i \in ItemsOf(k) : ret[i].image_url # src
                    ELSE EndsInImageExt(src) =>
                            \E i \in ItemsOf(k) : ret[i].image_url = src

\* The feed without its entry k.
WithoutEntry(entries, k) ==
    SubSeq(entries, 1, k - 1) \o SubSeq(entries, k + 1, Len(entries))

\* C14: when processing entry k of the parsed feed raises, the call returns
\* what it would return for the feed without entry k: the items admitted
\* before k are kept and the entries after k are processed in order. The scan
\* ends only at the end of the feed or at limit items, and the call slept
\* only after attempts whose parse raised.
C14_EntryErrorSkipsEntry ==
    ReturnedFromScan =>
        \A k \in 1..Len(fetch.entries) :
            EntryRaises(fetch.entries[k]) =>
                /\ ret = ExpectedMemes(WithoutEntry(fetch.entries, k), fetch.limit)
                /\ LET before == ExpectedMemes(SubSeq(fetch.entries, 1, k - 1),
                                               fetch.limit)
                   IN SubSeq(ret, 1, Len(before)) = before
                /\ fetch.scanned = Len(fetch.entries) \/ Len(ret) = fetch.limit
                /\ Len(fetch.sleeps) = Len(fetch.outcomes) - 1
                /\ AllRaise(SubSeq(fetch.outcomes, 1, Len(fetch.outcomes) - 1))

\* C14 witness: the second of three entries raised, the first and the third
\* were admitted, on the first attempt.
C14_Witness ==
    /\ ReturnedFromScan
    /\ fetch.outcomes = <<"entries">>
    /\ Len(fetch.entries) = 3
    /\ EntryRaises(fetch.entries[2])
    /\ Len(ret) = 2
    /\ ret[1].post_url = fetch.entries[1].link
    /\ ret[2].post_url = fetch.entries[3].link

\* C12 as claimed: the title of every embed is at most 250 characters long.
C12_TitleAtMost250 ==
    \A i \in 1..Len(send.embeds) : Len(send.embeds[i].title) <= 250

\* C12 amended: the title of embed i is the number i, ". " and the first 250
\* characters of the item's title, hence at most 253 characters long for the
\* batches of at most 9 items.
C12_TitleAtMost253 ==
    \A i \in 1..Len(send.embeds) :
        LET t == send.embeds[i].title
            n == Min(250, Len(send.memes[i].title))
        IN /\ Len(t) <= 253
           /\ SubSeq(t, 1, 3) = <<ToString(i), ".", " ">>
           /\ SubSeq(t, 4, Len(t)) = SubSeq(send.memes[i].title, 1, n)

\* C12 witness: a delivered batch held a title of 251 characters, and its
\* embed title has 253.
C12_Witness ==
    /\ pc = "send_ret"
    /\ send.result
    /\ \E i \in 1..Len(send.embeds) :
          /\ Len(send.memes[i].title) = 251
          /\ Len(send.embeds[i].title) = 253

\* C15: a call of send_to_discord with a non-empty batch makes at most 3
\* POSTs, all but the last of which failed, slept 2 seconds after each POST
\* but the last, and returns True iff the last POST succeeded.
C15_BoundedDelivery ==
    /\ Len(send.outcomes) <= 3
    /\ \A i \in 1..(Len(send.outcomes) - 1) : send.outcomes[i] = "fail"
    /\ pc = "send_ret" /\ send.memes # <<>> =>
         /\ Len(send.outcomes) \in 1..3
         /\ send.sleeps = [i \in 1..(Len(send.outcomes) - 1) |-> 2]
         /\ send.result <=> send.outcomes[Len(send.outcomes)] = "ok"
         /\ net.posts[send.caller] = Len(send.outcomes)

\* C15 witness: the third POST succeeded after two failures and two pauses.
C15_Witness ==
    /\ pc = "send_ret"
    /\ send.outcomes = <<"fail", "fail", "ok">>
    /\ send.sleeps = <<2, 2>>
    /\ send.result

\* C16: after the first fetch call that used up its attempts (it returns no
\* items), the next source of the category is fetched: in the general
\* category when the sources up to it gave fewer than 5 items, in the work
\* category always; and the run goes on to POST every non-empty batch.
C16_ExhaustionNotFatal ==
    /\ pc = "fetch_ret" /\ AllRaise(fetch.outcomes) => ret = <<>>
    /\ net.exhausted > 0 =>
         LET k == net.exhausted
             upTo == {i \in 1..Len(general_memes) : SourcePos(general_memes[i]) <= k}
         IN /\ GeneralDone /\ net.calls[k][1] = "general"
                 /\ k < Len(general_subreddits) /\ Cardinality(upTo) < 5 =>
                   /\ Len(CalledFor("general")) >= k + 1
                   /\ CalledFor("general")[k + 1] = general_subreddits[k + 1]
            /\ WorkDone => CalledFor("work") = work_subreddits
            /\ pc = "done" =>
                   /\ top_general_memes # <<>> => net.posts.general >= 1
                   /\ top_work_memes # <<>> => net.posts.work >= 1

\* C16 witness: the first general source used up its attempts, the second
\* was fetched, and a general batch was delivered.
C16_Witness ==
    /\ pc = "done"
    /\ net.exhausted = 1
    /\ Len(CalledFor("general")) >= 2
    /\ "general" \in net.ok
    /\ exit_code = 0

\* C19: every run of main ends with an exit code, after at most 8 fetch calls
\* of at most 3 attempts each and at most 2 send_to_discord calls of at most 3
\* POSTs each.
C19_TerminatesBounded ==
    /\ <>(pc = "done" /\ exit_code \in {0, 1})
    /\ [](/\ Len(net.calls) <= 8
          /\ Len(fetch.outcomes) <= 3
          /\ Len(net.sends) <= 2
          /\ Len(send.outcomes) <= 3
          /\ net.posts.general + net.posts.work <= 6)

\* C19 witness: a run ended after 8 fetch calls and 6 POSTs.
C19_Witness ==
    /\ pc = "done"
    /\ Len(net.calls) = 8
    /\ net.sends = <<"general", "work">>
    /\ net.posts.general = 3
    /\ net.posts.work = 3
    /\ exit_code = 1

====
